---- MODULE Spec2Model ----
(***************************************************************************)
(* Model of the Notification store of src/src/Notification.{h,cpp}: a      *)
(* std::map<std::string, NotificationItem> guarded by one FreeRTOS mutex,  *)
(* used by concurrent tasks through send / consume / signal / has /        *)
(* hasSignal / remove / clear / count / wait.                              *)
(*                                                                         *)
(* Every task runs one call at a time.  A call is split at the points      *)
(* where the task can be preempted with an observable difference: entry,   *)
(* xSemaphoreTake (success or time-out), the map accesses made while the   *)
(* mutex is held, the deadline test, vTaskDelay, and the return.           *)
(***************************************************************************)
EXTENDS Integers, Sequences, FiniteSets, TLC

----------------------------------------------------------------------------
(* Bounds of the model *)

\* Width of TickType_t in the model (32 on the target).
TickBits == 2

----------------------------------------------------------------------------
(* Values *)

Tasks == {"t1", "t2", "t3", "t4"}

\* const char* key == nullptr
NullKey == "(null)"
\* The key slot of an operation that takes no key (clear, count).
NoKey == "(nokey)"
\* std::string keys; "" is the empty string.
StrKeys == {"", "a", "b"}

\* Values carry their C++ type: a void*, an int, a bool, a size_t.
Ptr(a) == [ptr |-> a]
IntV(n) == [int |-> n]
Bool(b) == [bool |-> b]
SizeT(n) == [size_t |-> n]
\* What a call of a void function yields, and a register that holds nothing.
Void == [void |-> "void"]
NoValue == [none |-> "none"]

nullptr == Ptr("nullptr")
p1 == Ptr("p1")
p2 == Ptr("p2")
true == Bool(TRUE)
false == Bool(FALSE)
\* Payload references the callers pass to send(key, void*).
Ptrs == {nullptr, p1, p2}
\* What an indeterminate void* may hold: any address, those above or another.
WildPtrs == Ptrs \cup {Ptr("wild")}
\* Integer signals the callers pass to send(key, int).
Ints == {IntV(-1), IntV(1)}
\* What an indeterminate int may hold.
WildInts == Ints \cup {IntV(7)}

TickMod == 2 ^ TickBits
\* portMAX_DELAY: the largest TickType_t
portMAX_DELAY == TickMod - 1
\* configTICK_RATE_HZ of the build (ESP-IDF default).
configTICK_RATE_HZ == 100
pdMS_TO_TICKS(ms) == (ms * configTICK_RATE_HZ) \div 1000

\* true ticks are counted up to here by the stopwatch of a blocking call
ElapsedCap == TickMod

VARIABLES
    notifications,  \* std::map<std::string, NotificationItem>: a function on the keys present
    mutex,          \* "nullptr" (creation failed), "free", or the task holding it
    tick,           \* xTaskGetTickCount(), TickBits wide
    pc,             \* per task: where it is in its call
    op,             \* per task: the operation it runs
    key,            \* per task: the key argument
    arg,            \* per task: the data / signal argument of send
    timeout_ticks,  \* per task: the timeout argument
    start_time,     \* per task: the local start_time of consume / signal / wait
    wake,           \* per task: ticks left of its vTaskDelay
    ret,            \* per task: the value returned
    elapsed,        \* per task: true ticks since its blocking call began (stopwatch)
    late,           \* per task: a tick has passed since it became ready to run
    took,           \* per task: whether its last xSemaphoreTake returned pdTRUE
    exit,           \* per task: the return statement its call left by
    scenario,       \* the family the scripts of a scripted run were drawn from
    prog,           \* per task: the calls a scripted caller still has to make
    rets            \* per task: the results of the scripted calls made so far

vars == <<notifications, mutex, tick, pc, op, key, arg, timeout_ticks,
          start_time, wake, ret, elapsed, late, took, exit, scenario, prog, rets>>

----------------------------------------------------------------------------
(* NotificationItem and the map *)

\* NotificationItem(void* d): data(d); signal is left indeterminate.
ItemOfData(d) == [init |-> "data", val |-> d]

\* NotificationItem(int s): signal(s); data is left indeterminate.
ItemOfSignal(s) == [init |-> "signal", val |-> s]

\* it->second.data: the values a read of the data member can yield.
DataOf(item) == IF item.init = "data" THEN {item.val} ELSE WildPtrs

\* it->second.signal: the values a read of the signal member can yield.
SignalOf(item) == IF item.init = "signal" THEN {item.val} ELSE WildInts

\* notifications.find(key) != notifications.end()
Found(m, k) == k \in DOMAIN m

\* erase that leaves the entry in the map
Erase_Keep(m, k) == m

\* erase that empties the map
Erase_All(m, k) == [j \in {} |-> m[j]]

\* notifications.erase(it)
Erase(m, k) == [j \in (DOMAIN m) \ {k} |-> m[j]]

\* emplace that inserts nothing
Emplace_Drop(m, k, item) == m

\* notifications.emplace(key, item): inserts only when the key is absent.
Emplace(m, k, item) ==
    IF k \in DOMAIN m THEN m
    ELSE [j \in (DOMAIN m) \cup {k} |-> IF j = k THEN item ELSE m[j]]

\* size() taken as "the map is not empty"
Size_AsFlag(m) == IF DOMAIN m = {} THEN 0 ELSE 1

\* notifications.size()
Size(m) == Cardinality(DOMAIN m)

EmptyMap == [j \in {} |-> ItemOfData(nullptr)]

----------------------------------------------------------------------------
(* Calls *)

Blocking == {"consume", "signal", "wait"}
KeyedOps == {"sendPtr", "sendInt", "consume", "signal", "has", "hasSignal", "remove", "wait"}

MkCall(o, k, a, T) == [op |-> o, key |-> k, arg |-> a, timeout |-> T]

\* The value an operation returns when it gives up.
FailValue(o) ==
    CASE o \in {"sendPtr", "sendInt", "has", "hasSignal", "remove", "wait"} -> false
      [] o = "consume" -> nullptr
      [] o = "signal" -> IntV(-1)
      [] o = "count" -> SizeT(0)
      [] o = "clear" -> Void

\* A task's registers between calls.
Idle(t) ==
    /\ pc' = [pc EXCEPT ![t] = "idle"]
    /\ op' = [op EXCEPT ![t] = "none"]
    /\ key' = [key EXCEPT ![t] = NoKey]
    /\ arg' = [arg EXCEPT ![t] = NoValue]
    /\ timeout_ticks' = [timeout_ticks EXCEPT ![t] = 0]
    /\ start_time' = [start_time EXCEPT ![t] = 0]
    /\ wake' = [wake EXCEPT ![t] = 0]
    /\ ret' = [ret EXCEPT ![t] = NoValue]
    /\ elapsed' = [elapsed EXCEPT ![t] = 0]
    /\ late' = [late EXCEPT ![t] = FALSE]
    /\ took' = [took EXCEPT ![t] = FALSE]
    /\ exit' = [exit EXCEPT ![t] = "none"]

\* return v; by the return statement `how`: "entry" (the test of mutex and key),
\* "lock" (xSemaphoreTake failed), "body" (under the mutex), "deadline" (the timeout).
Finish(t, v, how) ==
    /\ pc' = [pc EXCEPT ![t] = "done"]
    /\ ret' = [ret EXCEPT ![t] = v]
    /\ exit' = [exit EXCEPT ![t] = how]
    /\ start_time' = [start_time EXCEPT ![t] = 0]
    /\ wake' = [wake EXCEPT ![t] = 0]
    /\ late' = [late EXCEPT ![t] = FALSE]
    /\ UNCHANGED <<op, key, arg, timeout_ticks, elapsed>>

\* Move to another place of the same call.
Goto(t, l) ==
    /\ pc' = [pc EXCEPT ![t] = l]
    /\ late' = [late EXCEPT ![t] = FALSE]
    /\ UNCHANGED <<op, key, arg, timeout_ticks, start_time, wake, ret, elapsed, exit>>

Init ==
    /\ notifications = EmptyMap
    /\ mutex \in {"free", "nullptr"}
    /\ tick = 0
    /\ pc = [t \in Tasks |-> "idle"]
    /\ op = [t \in Tasks |-> "none"]
    /\ key = [t \in Tasks |-> NoKey]
    /\ arg = [t \in Tasks |-> NoValue]
    /\ timeout_ticks = [t \in Tasks |-> 0]
    /\ start_time = [t \in Tasks |-> 0]
    /\ wake = [t \in Tasks |-> 0]
    /\ ret = [t \in Tasks |-> NoValue]
    /\ elapsed = [t \in Tasks |-> 0]
    /\ late = [t \in Tasks |-> FALSE]
    /\ took = [t \in Tasks |-> FALSE]
    /\ exit = [t \in Tasks |-> "none"]
    /\ scenario = "free"
    /\ prog = [t \in Tasks |-> <<>>]
    /\ rets = [t \in Tasks |-> <<>>]

----------------------------------------------------------------------------
(* Entry of a call *)

\* the entry test without its key half
RejectsKeyed_MutexOnly(k) == mutex = "nullptr"

\* if (mutex == nullptr || key == nullptr) return <failure>;  -- every keyed operation but wait
RejectsKeyed(k) == mutex = "nullptr" \/ k = NullKey

\* if (mutex == nullptr) return;  -- clear, count
RejectsUnkeyed == mutex = "nullptr"

\* if (key == nullptr) return false;  -- wait tests the key only
RejectsWait(k) == k = NullKey

\* has(key) as called by wait: without a mutex it returns false at once and wait
\* goes on to its deadline test; otherwise it goes for the mutex.
HasEntry == IF mutex = "nullptr" THEN "check" ELSE "take"

\* Where a call of operation o with key k goes from its entry.
Entry(o, k) ==
    CASE o = "wait" -> IF RejectsWait(k) THEN "done" ELSE HasEntry
      [] o \in {"clear", "count"} -> IF RejectsUnkeyed THEN "done" ELSE "take"
      [] OTHER -> IF RejectsKeyed(k) THEN "done" ELSE "take"

\* Task t calls c.op(c.key, c.arg / c.timeout).
Invoke(t, c) ==
    /\ pc[t] = "idle"
    /\ pc' = [pc EXCEPT ![t] = Entry(c.op, c.key)]
    /\ op' = [op EXCEPT ![t] = c.op]
    /\ key' = [key EXCEPT ![t] = c.key]
    /\ arg' = [arg EXCEPT ![t] = c.arg]
    /\ timeout_ticks' = [timeout_ticks EXCEPT ![t] = c.timeout]
    /\ start_time' = [start_time EXCEPT ![t] =
                        IF c.op \in Blocking /\ Entry(c.op, c.key) # "done" THEN tick ELSE 0]
    /\ ret' = [ret EXCEPT ![t] = FailValue(c.op)]
    /\ wake' = [wake EXCEPT ![t] = 0]
    /\ elapsed' = [elapsed EXCEPT ![t] = 0]
    /\ late' = [late EXCEPT ![t] = FALSE]
    /\ took' = [took EXCEPT ![t] = FALSE]
    /\ exit' = [exit EXCEPT ![t] = IF Entry(c.op, c.key) = "done" THEN "entry" ELSE "none"]
    /\ UNCHANGED <<notifications, mutex, tick, scenario>>

----------------------------------------------------------------------------
(* The mutex *)

\* xSemaphoreTake(mutex, ...) == pdTRUE
TakeMutex(t) ==
    /\ pc[t] = "take"
    /\ mutex = "free"
    /\ mutex' = t
    /\ took' = [took EXCEPT ![t] = TRUE]
    /\ Goto(t, "locked")
    /\ UNCHANGED <<notifications, tick, scenario, prog, rets>>

\* a polling loop that returns when it cannot take the mutex
AfterTakeFailed_GiveUp(o) == "done"

\* an operation that, unable to take the mutex, goes round once more
AfterTakeFailed_Retry(o) == "check"

\* Where an operation goes when xSemaphoreTake times out: the polling loops go on
\* to their deadline test (for wait, has returned false), the others return failure.
AfterTakeFailed(o) == IF o \in Blocking THEN "check" ELSE "done"

\* xSemaphoreTake(mutex, ...) != pdTRUE: another task held the mutex for the whole
\* block time (0 ticks for signal).  How long a holder is kept off the CPU is up to
\* the scheduler, so the time-out can happen whenever another task holds the mutex.
TakeTimeout(t) ==
    /\ pc[t] = "take"
    /\ mutex \notin {"free", "nullptr", t}
    /\ took' = [took EXCEPT ![t] = FALSE]
    /\ IF AfterTakeFailed(op[t]) = "done"
          THEN Finish(t, FailValue(op[t]), "lock")
          ELSE Goto(t, "check")
    /\ UNCHANGED <<notifications, mutex, tick, scenario, prog, rets>>

----------------------------------------------------------------------------
(* The map accesses, made while the mutex is held *)

\* a give that leaves the mutex with the task
Give_Forget == UNCHANGED mutex

\* xSemaphoreGive(mutex)
Give == mutex' = "free"

\* a send that gives the mutex back between its erase and its emplace
SendErase_Unlocked(t) ==
    /\ pc[t] = "locked"
    /\ op[t] \in {"sendPtr", "sendInt"}
    /\ mutex = t
    /\ notifications' = (IF Found(notifications, key[t])
                            THEN Erase(notifications, key[t]) ELSE notifications)
    /\ mutex' = "free"
    /\ Goto(t, "emplace")
    /\ UNCHANGED <<tick, took, scenario, prog, rets>>

\* send, first half: auto it = find(key); if (it != end()) erase(it);
SendErase(t) ==
    /\ pc[t] = "locked"
    /\ op[t] \in {"sendPtr", "sendInt"}
    /\ mutex = t
    /\ notifications' = (IF Found(notifications, key[t])
                            THEN Erase(notifications, key[t]) ELSE notifications)
    /\ Goto(t, "emplace")
    /\ UNCHANGED <<mutex, tick, took, scenario, prog, rets>>

\* The item a send constructs from its argument.
ItemOfSend(o, a) == IF o = "sendPtr" THEN ItemOfData(a) ELSE ItemOfSignal(a)

\* send, second half: emplace(key, NotificationItem(arg)); give; return true;
SendEmplace(t) ==
    /\ pc[t] = "emplace"
    /\ mutex = t
    /\ notifications' = Emplace(notifications, key[t], ItemOfSend(op[t], arg[t]))
    /\ Give
    /\ Finish(t, true, "body")
    /\ UNCHANGED <<tick, took, scenario, prog, rets>>

\* consume, under the mutex: find; if found { data = it->second.data; erase; give;
\* return data; } give;
ConsumeLocked(t) ==
    /\ pc[t] = "locked"
    /\ op[t] = "consume"
    /\ mutex = t
    /\ Give
    /\ IF Found(notifications, key[t])
          THEN /\ \E d \in DataOf(notifications[key[t]]) : Finish(t, d, "body")
               /\ notifications' = Erase(notifications, key[t])
          ELSE /\ Goto(t, "check")
               /\ UNCHANGED notifications
    /\ UNCHANGED <<tick, took, scenario, prog, rets>>

\* signal, under the mutex: find; if found { signal = it->second.signal; erase; give;
\* return signal; } give;
SignalLocked(t) ==
    /\ pc[t] = "locked"
    /\ op[t] = "signal"
    /\ mutex = t
    /\ Give
    /\ IF Found(notifications, key[t])
          THEN /\ \E s \in SignalOf(notifications[key[t]]) : Finish(t, s, "body")
               /\ notifications' = Erase(notifications, key[t])
          ELSE /\ Goto(t, "check")
               /\ UNCHANGED notifications
    /\ UNCHANGED <<tick, took, scenario, prog, rets>>

\* an existence check that takes the entry it finds
HasLocked_Taking(t) ==
    /\ pc[t] = "locked"
    /\ op[t] \in {"has", "hasSignal", "wait"}
    /\ mutex = t
    /\ mutex' = "free"
    /\ notifications' = [j \in (DOMAIN notifications) \ {key[t]} |-> notifications[j]]
    /\ IF op[t] = "wait" /\ key[t] \notin DOMAIN notifications
          THEN Goto(t, "check")
          ELSE Finish(t, Bool(key[t] \in DOMAIN notifications), "body")
    /\ UNCHANGED <<tick, took, scenario, prog, rets>>

\* has / hasSignal, under the mutex: exists = find(key) != end(); give; return exists;
\* and, for wait, the test of that result: if (has(key)) return true;
HasLocked(t) ==
    /\ pc[t] = "locked"
    /\ op[t] \in {"has", "hasSignal", "wait"}
    /\ mutex = t
    /\ Give
    /\ IF op[t] = "wait" /\ ~Found(notifications, key[t])
          THEN Goto(t, "check")
          ELSE Finish(t, Bool(Found(notifications, key[t])), "body")
    /\ UNCHANGED <<notifications, tick, took, scenario, prog, rets>>

\* remove, under the mutex: find; if found { erase; removed = true; } give; return removed;
RemoveLocked(t) ==
    /\ pc[t] = "locked"
    /\ op[t] = "remove"
    /\ mutex = t
    /\ Give
    /\ notifications' = (IF Found(notifications, key[t])
                            THEN Erase(notifications, key[t]) ELSE notifications)
    /\ Finish(t, Bool(Found(notifications, key[t])), "body")
    /\ UNCHANGED <<tick, took, scenario, prog, rets>>

\* clear that forgets to empty the map
ClearAll_Keep(m) == m

\* notifications.clear()
ClearAll(m) == EmptyMap

\* clear, under the mutex: notifications.clear(); give;
ClearLocked(t) ==
    /\ pc[t] = "locked"
    /\ op[t] = "clear"
    /\ mutex = t
    /\ Give
    /\ notifications' = ClearAll(notifications)
    /\ Finish(t, Void, "body")
    /\ UNCHANGED <<tick, took, scenario, prog, rets>>

\* count, under the mutex: count = notifications.size(); give; return count;
CountLocked(t) ==
    /\ pc[t] = "locked"
    /\ op[t] = "count"
    /\ mutex = t
    /\ Give
    /\ Finish(t, SizeT(Size(notifications)), "body")
    /\ UNCHANGED <<notifications, tick, took, scenario, prog, rets>>

----------------------------------------------------------------------------
(* The polling loops of consume, signal and wait *)

\* the difference taken as a signed number, without the wrap
ElapsedTicks_Signed(now, start) == now - start

\* TickType_t elapsed = xTaskGetTickCount() - start_time;  (unsigned, TickBits wide)
ElapsedTicks(now, start) == (now - start) % TickMod

\* if (elapsed >= timeout_ticks)
DeadlinePassed(now, start, T) == ElapsedTicks(now, start) >= T

\* vTaskDelay(pdMS_TO_TICKS(1)) in consume and signal, vTaskDelay(pdMS_TO_TICKS(10)) in wait
DelayTicks(o) == IF o = "wait" THEN pdMS_TO_TICKS(10) ELSE pdMS_TO_TICKS(1)

\* The deadline test and, when it fails, the call of vTaskDelay.
CheckTimeout(t) ==
    /\ pc[t] = "check"
    /\ IF DeadlinePassed(tick, start_time[t], timeout_ticks[t])
          THEN Finish(t, FailValue(op[t]), "deadline")
          ELSE /\ pc' = [pc EXCEPT ![t] = "sleep"]
               /\ wake' = [wake EXCEPT ![t] = DelayTicks(op[t])]
               /\ late' = [late EXCEPT ![t] = FALSE]
               /\ UNCHANGED <<op, key, arg, timeout_ticks, start_time, ret, elapsed, exit>>
    /\ UNCHANGED <<notifications, mutex, tick, took, scenario, prog, rets>>

\* vTaskDelay returns and the loop starts over: consume and signal go for the mutex,
\* wait calls has(key).
Wake(t) ==
    /\ pc[t] = "sleep"
    /\ wake[t] = 0
    /\ Goto(t, IF op[t] = "wait" THEN HasEntry ELSE "take")
    /\ UNCHANGED <<notifications, mutex, tick, took, scenario, prog, rets>>

\* The tick interrupt: the tick count advances (and wraps), the delays run down.
TickCount ==
    /\ tick' = (tick + 1) % TickMod
    /\ wake' = [t \in Tasks |-> IF wake[t] > 0 THEN wake[t] - 1 ELSE 0]
    /\ elapsed' = [t \in Tasks |->
                     IF op[t] \in Blocking /\ pc[t] \notin {"idle", "done"} /\ elapsed[t] < ElapsedCap
                        THEN elapsed[t] + 1 ELSE elapsed[t]]
    /\ UNCHANGED <<notifications, mutex, pc, op, key, arg, timeout_ticks, start_time,
                   ret, took, exit, scenario, prog, rets>>

\* Ticks at any time: a task may be kept off the CPU for any number of ticks.
Tick == TickCount /\ UNCHANGED late

\* A task that runs as soon as it gets the CPU: it holds the mutex, is at its
\* deadline test, or its delay is over.
Ready(t) == pc[t] \in {"locked", "emplace", "check"} \/ (pc[t] = "sleep" /\ wake[t] = 0)

\* Ticks under a load that keeps a ready task off the CPU for less than two ticks.
TickOnTime ==
    /\ \A t \in Tasks : Ready(t) => ~late[t]
    /\ TickCount
    /\ late' = [t \in Tasks |-> Ready(t)]

----------------------------------------------------------------------------
(* The callers *)

\* The tasks that call at will in Spec and SpecTimed.
Callers == {"t1", "t2"}

\* Calls of every operation; the polling ones with timeout 0.
StoreCalls ==
    {MkCall("sendPtr", k, p, 0) : k \in {NullKey, "", "a"}, p \in {nullptr, p1}}
    \cup {MkCall("sendInt", k, s, 0) : k \in {NullKey, "", "a"}, s \in Ints}
    \cup {MkCall(o, k, NoValue, 0) : o \in Blocking, k \in {NullKey, "", "a"}}
    \cup {MkCall(o, NullKey, NoValue, portMAX_DELAY) : o \in Blocking}
    \cup {MkCall(o, k, NoValue, 0) : o \in {"has", "hasSignal", "remove"}, k \in {NullKey, "", "a"}}
    \cup {MkCall(o, NoKey, NoValue, 0) : o \in {"clear", "count"}}

\* A task calls any operation with any arguments.
Call(t) ==
    /\ \E c \in StoreCalls : Invoke(t, c)
    /\ UNCHANGED <<prog, rets>>

\* The caller takes the result and is ready for its next call.
Return(t) ==
    /\ pc[t] = "done"
    /\ Idle(t)
    /\ UNCHANGED <<notifications, mutex, tick, scenario, prog, rets>>

\* Every operation, called at will by two tasks, within one tick.
Next ==
    \/ \E t \in Callers : Call(t)
    \/ \E t \in Tasks : TakeMutex(t)
    \/ \E t \in Tasks : TakeTimeout(t)
    \/ \E t \in Tasks : SendErase(t)
    \/ \E t \in Tasks : SendEmplace(t)
    \/ \E t \in Tasks : ConsumeLocked(t)
    \/ \E t \in Tasks : SignalLocked(t)
    \/ \E t \in Tasks : HasLocked(t)
    \/ \E t \in Tasks : RemoveLocked(t)
    \/ \E t \in Tasks : ClearLocked(t)
    \/ \E t \in Tasks : CountLocked(t)
    \/ \E t \in Tasks : CheckTimeout(t)
    \/ \E t \in Tasks : Return(t)

Spec == Init /\ [][Next]_vars

----------------------------------------------------------------------------
(* The polling operations against the clock *)

\* Timeouts of the polling calls: one tick, and the default of wait.
Timeouts == {1, portMAX_DELAY}

\* Task t1 polls one key with any of the three operations; task t2 sends to that
\* key, reads it, and consumes it with a short timeout.
TimedCalls(t) ==
    IF t = "t1"
       THEN {MkCall(o, "a", NoValue, T) : o \in Blocking, T \in Timeouts}
       ELSE {MkCall("sendPtr", "a", p1, 0), MkCall("has", "a", NoValue, 0),
             MkCall("consume", "a", NoValue, 1)}

CallTimed(t) ==
    /\ \E c \in TimedCalls(t) : Invoke(t, c)
    /\ UNCHANGED <<prog, rets>>

\* The polling operations, called at will while the clock runs.
NextTimed ==
    \/ \E t \in Callers : CallTimed(t)
    \/ \E t \in Tasks : TakeMutex(t)
    \/ \E t \in Tasks : TakeTimeout(t)
    \/ \E t \in Tasks : SendErase(t)
    \/ \E t \in Tasks : SendEmplace(t)
    \/ \E t \in Tasks : ConsumeLocked(t)
    \/ \E t \in Tasks : SignalLocked(t)
    \/ \E t \in Tasks : HasLocked(t)
    \/ \E t \in Tasks : CheckTimeout(t)
    \/ \E t \in Tasks : Wake(t)
    \/ \E t \in Tasks : Return(t)
    \/ Tick

SpecTimed == Init /\ [][NextTimed]_vars

----------------------------------------------------------------------------
(* Scripted callers: each task makes the calls of its script, in order *)

\* What a scripted caller keeps of a finished call.
Outcome(t) ==
    [op |-> op[t], key |-> key[t], arg |-> arg[t], timeout |-> timeout_ticks[t],
     ret |-> ret[t], exit |-> exit[t]]

\* The task makes the next call of its script.
ScriptCall(t) ==
    /\ prog[t] # <<>>
    /\ Invoke(t, Head(prog[t]))
    /\ prog' = [prog EXCEPT ![t] = Tail(@)]
    /\ UNCHANGED rets

\* The task takes the result of its call and notes it.
ScriptReturn(t) ==
    /\ pc[t] = "done"
    /\ rets' = [rets EXCEPT ![t] = Append(@, Outcome(t))]
    /\ Idle(t)
    /\ UNCHANGED <<notifications, mutex, tick, scenario, prog>>

Scripts(s1, s2, s3, s4) ==
    [t \in Tasks |-> CASE t = "t1" -> s1 [] t = "t2" -> s2 [] t = "t3" -> s3 [] t = "t4" -> s4]

\* One send, then two consumers of the key: the sender itself and another task.
RaceScripts ==
    {Scripts(<<MkCall("sendPtr", "a", v, 0), MkCall("consume", "a", NoValue, T1)>>,
             <<MkCall("consume", "a", NoValue, T2)>>, <<>>, <<>>) :
        v \in {p1, p2}, T1 \in {0, 1}, T2 \in {0, 1}}

\* Two senders to distinct keys and two consumers, each of either key.
PairScripts ==
    {Scripts(<<MkCall("sendPtr", "a", p1, 0)>>, <<MkCall("sendPtr", "b", p2, 0)>>,
             <<MkCall("consume", k3, NoValue, T)>>, <<MkCall("consume", k4, NoValue, T)>>) :
        k3 \in {"a", "b"}, k4 \in {"a", "b"}, T \in {0, 1}}

\* One task alone: send, consume, consume again.
RoundTripScripts ==
    {Scripts(<<MkCall("sendPtr", k, p, 0), MkCall("consume", k, NoValue, T), MkCall("consume", k, NoValue, 0)>>,
             <<>>, <<>>, <<>>) :
        k \in StrKeys, p \in Ptrs, T \in {0, 1, portMAX_DELAY}}

\* The two forms of send, with two values each.
Sends(k) ==
    {MkCall("sendPtr", k, p, 0) : p \in {p1, p2}} \cup {MkCall("sendInt", k, i, 0) : i \in {IntV(1), IntV(2)}}

\* One task alone: two different sends to one key, then two retrievals.
TwiceScripts ==
    {Scripts(<<s1, s2, MkCall(g1, "a", NoValue, 0), MkCall(g2, "a", NoValue, 0)>>, <<>>, <<>>, <<>>) :
        s1 \in Sends("a"), s2 \in Sends("a"), g1 \in {"consume", "signal"}, g2 \in {"consume", "signal"}}

\* The calls that change the map, on two keys.
MutatingCalls ==
    UNION {{MkCall("sendPtr", k, p1, 0), MkCall("sendInt", k, IntV(1), 0), MkCall("consume", k, NoValue, 0),
            MkCall("signal", k, NoValue, 0), MkCall("remove", k, NoValue, 0)} : k \in {"a", "b"}}
    \cup {MkCall("clear", NoKey, NoValue, 0)}

\* One task alone: three calls that change the map, then count().
CountScripts ==
    {Scripts(<<c1, c2, c3, MkCall("count", NoKey, NoValue, 0)>>, <<>>, <<>>, <<>>) :
        c1 \in MutatingCalls, c2 \in MutatingCalls, c3 \in MutatingCalls}

\* send, clear, then count() or has(); a second task reads the store meanwhile.
ClearScripts ==
    {Scripts(<<MkCall("sendPtr", "a", p1, 0), MkCall("clear", NoKey, NoValue, 0), q>>, r, <<>>, <<>>) :
        q \in {MkCall("count", NoKey, NoValue, 0), MkCall("has", "a", NoValue, 0)},
        r \in {<<>>, <<MkCall("hasSignal", "b", NoValue, 0)>>}}

Families ==
    [race |-> RaceScripts, roundtrip |-> RoundTripScripts,
     twice |-> TwiceScripts, count |-> CountScripts, clear |-> ClearScripts]

\* The state after construction, with the scripts of one family handed to the tasks.
InitFamily(name, scripts) ==
    /\ notifications = EmptyMap
    /\ mutex \in {"free", "nullptr"}
    /\ tick = 0
    /\ pc = [t \in Tasks |-> "idle"]
    /\ op = [t \in Tasks |-> "none"]
    /\ key = [t \in Tasks |-> NoKey]
    /\ arg = [t \in Tasks |-> NoValue]
    /\ timeout_ticks = [t \in Tasks |-> 0]
    /\ start_time = [t \in Tasks |-> 0]
    /\ wake = [t \in Tasks |-> 0]
    /\ ret = [t \in Tasks |-> NoValue]
    /\ elapsed = [t \in Tasks |-> 0]
    /\ late = [t \in Tasks |-> FALSE]
    /\ took = [t \in Tasks |-> FALSE]
    /\ exit = [t \in Tasks |-> "none"]
    /\ scenario = name
    /\ prog \in scripts
    /\ rets = [t \in Tasks |-> <<>>]

InitScript == \E name \in DOMAIN Families : InitFamily(name, Families[name])

NextScript ==
    \/ \E t \in Tasks : ScriptCall(t)
    \/ \E t \in Tasks : TakeMutex(t)
    \/ \E t \in Tasks : TakeTimeout(t)
    \/ \E t \in Tasks : SendErase(t)
    \/ \E t \in Tasks : SendEmplace(t)
    \/ \E t \in Tasks : ConsumeLocked(t)
    \/ \E t \in Tasks : SignalLocked(t)
    \/ \E t \in Tasks : HasLocked(t)
    \/ \E t \in Tasks : RemoveLocked(t)
    \/ \E t \in Tasks : ClearLocked(t)
    \/ \E t \in Tasks : CountLocked(t)
    \/ \E t \in Tasks : CheckTimeout(t)
    \/ \E t \in Tasks : Wake(t)
    \/ \E t \in Tasks : ScriptReturn(t)
    \/ Tick

SpecScript == InitScript /\ [][NextScript]_vars

InitPairs == InitFamily("pairs", PairScripts)

\* Senders and consumers running within one tick: a consumer with timeout 0 gives up
\* when it looks before the send, one with a timeout polls on.
NextPairs ==
    \/ \E t \in Tasks : ScriptCall(t)
    \/ \E t \in Tasks : TakeMutex(t)
    \/ \E t \in Tasks : TakeTimeout(t)
    \/ \E t \in Tasks : SendErase(t)
    \/ \E t \in Tasks : SendEmplace(t)
    \/ \E t \in Tasks : ConsumeLocked(t)
    \/ \E t \in Tasks : CheckTimeout(t)
    \/ \E t \in Tasks : Wake(t)
    \/ \E t \in Tasks : ScriptReturn(t)

SpecPairs == InitPairs /\ [][NextPairs]_vars

\* All the calls of the scripts are made and their results taken.
AllDone == \A t \in Tasks : prog[t] = <<>> /\ pc[t] = "idle"

----------------------------------------------------------------------------
(* Claims *)

Last(q) == q[Len(q)]

\* C1: after one successful send(k, v) with v non-null, of two tasks that consume k
\* exactly one returns v and the other returns nullptr, under every interleaving.
C1_RaceExactlyOne ==
    (scenario = "race" /\ AllDone /\ rets["t1"][1].ret = true) =>
        LET v == rets["t1"][1].arg
            r1 == rets["t1"][2].ret
            r2 == rets["t2"][1].ret
        IN  (r1 = v /\ r2 = nullptr) \/ (r1 = nullptr /\ r2 = v)

\* The sender's own consume lost the race to the other task's.
C1_Witness ==
    /\ scenario = "race" /\ AllDone
    /\ rets["t1"][1].ret = true
    /\ rets["t1"][2].ret = nullptr
    /\ rets["t2"][1].ret = rets["t1"][1].arg
    /\ rets["t2"][1].timeout = 1

\* The value sent to key k in the scenario of the two senders.
PairValue(k) == IF k = "a" THEN p1 ELSE p2
PairSender(k) == IF k = "a" THEN "t1" ELSE "t2"
\* The consumers that have returned v.
PairGot(v) == {c \in {"t3", "t4"} : rets[c] # <<>> /\ rets[c][1].ret = v}

\* C2: with senders to distinct keys and consumers of those keys, no value is
\* returned by two consume calls, a consumer returns the value of its key or nullptr,
\* and once all calls are over each value sent was either returned exactly once (and
\* is gone from the store) or never returned and still pending under its key.
C2_ExactlyOnce ==
    scenario = "pairs" =>
        /\ \A k \in {"a", "b"} : Cardinality(PairGot(PairValue(k))) <= 1
        /\ \A c \in {"t3", "t4"} :
               rets[c] # <<>> =>
                   /\ rets[c][1].ret \in {nullptr, PairValue(rets[c][1].key)}
                   /\ rets[c][1].exit = "body" => rets[c][1].ret = PairValue(rets[c][1].key)
        /\ AllDone =>
             \A k \in {"a", "b"} :
                IF rets[PairSender(k)][1].ret = true
                   THEN \/ /\ Cardinality(PairGot(PairValue(k))) = 1
                           /\ ~Found(notifications, k)
                        \/ /\ Cardinality(PairGot(PairValue(k))) = 0
                           /\ Found(notifications, k)
                           /\ notifications[k] = ItemOfData(PairValue(k))
                   ELSE PairGot(PairValue(k)) = {} /\ ~Found(notifications, k)

\* Both consumers went for key "a": one got its value, the other timed out, and the
\* value sent to "b" is still pending.
C2_Witness ==
    /\ scenario = "pairs" /\ AllDone
    /\ rets["t3"][1].key = "a" /\ rets["t4"][1].key = "a"
    /\ rets["t3"][1].ret = nullptr /\ rets["t4"][1].ret = p1
    /\ Found(notifications, "b")

\* C3: with no other task running, send(k, p) then consume(k, T) returns p for any
\* T >= 0, and a further consume(k, 0) returns nullptr.
C3_RoundTrip ==
    (scenario = "roundtrip" /\ mutex # "nullptr") =>
        LET r == rets["t1"]
        IN  /\ Len(r) >= 1 => r[1].ret = true
            /\ Len(r) >= 2 => r[2].ret = r[1].arg /\ r[2].exit = "body"
            /\ Len(r) >= 3 => r[3].ret = nullptr /\ r[3].exit = "deadline"

C3_Witness ==
    /\ scenario = "roundtrip" /\ mutex # "nullptr"
    /\ Len(rets["t1"]) = 3
    /\ rets["t1"][1].key = "" /\ rets["t1"][1].arg = p2
    /\ rets["t1"][2].timeout = 0 /\ rets["t1"][2].ret = p2
    /\ rets["t1"][3].ret = nullptr

\* The retrieval that returns the kind of value a send stores.
GetterOf(sendOp) == IF sendOp = "sendPtr" THEN "consume" ELSE "signal"

\* C4: after two sends to one key with no retrieval between them, the next
\* consume/signal returns the second value (whichever form the sends had), the
\* store held one entry only (a further retrieval returns absent), and no later call
\* returns the first value.
C4_SecondValueOnly ==
    (scenario = "twice" /\ mutex # "nullptr" /\ Len(rets["t1"]) = 4) =>
        LET r == rets["t1"]
        IN  /\ r[3].op = GetterOf(r[2].op) => r[3].ret = r[2].arg
            /\ r[4].ret = FailValue(r[4].op)
            /\ \A i \in {3, 4} :
                  (r[i].op = GetterOf(r[1].op) /\ (r[2].op # r[1].op \/ r[2].arg # r[1].arg))
                      => r[i].ret # r[1].arg

\* The pointers passed to send(key, void*) in the calls before the i-th of a script.
SentPtrs(r, i) == {r[j].arg : j \in {n \in 1..(i - 1) : r[n].op = "sendPtr"}}

\* C6: a reference returned by consume is one that was passed to send(k, void*);
\* after send(k, int) made the entry, consume(k, 0) returns no pointer payload.
C6_NoPointerFromSignal ==
    scenario = "twice" =>
        LET r == rets["t1"]
        IN  \A i \in 1..Len(r) :
               r[i].op = "consume" => r[i].ret \in (SentPtrs(r, i) \cup {nullptr})

\* The keys pending after the calls of r: those whose last successful send was not
\* followed by a consume or signal that found the entry, a remove or a clear.
RECURSIVE PendingAfter(_)
PendingAfter(r) ==
    IF r = <<>> THEN {}
    ELSE LET before == PendingAfter(SubSeq(r, 1, Len(r) - 1))
             c == Last(r)
         IN  CASE c.op \in {"sendPtr", "sendInt"} ->
                      IF c.ret = true THEN before \cup {c.key} ELSE before
               [] c.op \in {"consume", "signal", "remove"} ->
                      IF c.exit = "body" THEN before \ {c.key} ELSE before
               [] c.op = "clear" -> IF c.exit = "body" THEN {} ELSE before
               [] OTHER -> before

\* C7: called while no other operation is in progress, count() returns the number
\* of distinct keys with a pending entry.
C7_CountIsPending ==
    (scenario = "count" /\ Len(rets["t1"]) = 4) =>
        rets["t1"][4].ret = SizeT(Cardinality(PendingAfter(SubSeq(rets["t1"], 1, 3))))

\* Two keys were sent to, one entry was consumed, and count() returned 1.
C7_Witness ==
    /\ scenario = "count" /\ Len(rets["t1"]) = 4
    /\ rets["t1"][1].op = "sendPtr" /\ rets["t1"][1].key = "a"
    /\ rets["t1"][2].op = "sendInt" /\ rets["t1"][2].key = "b"
    /\ rets["t1"][3].op = "consume" /\ rets["t1"][3].key = "a" /\ rets["t1"][3].exit = "body"
    /\ rets["t1"][4].ret = SizeT(1)

C5_NotBeforeDeadline ==
    \A t \in Tasks :
        (pc[t] = "done" /\ op[t] \in Blocking /\ exit[t] \notin {"entry", "body"}) =>
            exit[t] = "deadline" /\ elapsed[t] >= timeout_ticks[t]

\* A consume whose last attempt at the mutex failed timed out after portMAX_DELAY ticks.
C5_Witness ==
    \E t \in Tasks :
        /\ pc[t] = "done" /\ op[t] = "consume" /\ exit[t] = "deadline"
        /\ mutex # "nullptr" /\ took[t] = FALSE
        /\ timeout_ticks[t] = portMAX_DELAY /\ elapsed[t] >= portMAX_DELAY

\* The steps of task t inside a call.
Step(t) ==
    \/ TakeMutex(t) \/ TakeTimeout(t) \/ SendErase(t) \/ SendEmplace(t)
    \/ ConsumeLocked(t) \/ SignalLocked(t) \/ HasLocked(t)
    \/ CheckTimeout(t) \/ Wake(t) \/ Return(t)

NextOnTime ==
    \/ \E t \in Callers : CallTimed(t)
    \/ \E t \in Tasks : TakeMutex(t)
    \/ \E t \in Tasks : TakeTimeout(t)
    \/ \E t \in Tasks : SendErase(t)
    \/ \E t \in Tasks : SendEmplace(t)
    \/ \E t \in Tasks : ConsumeLocked(t)
    \/ \E t \in Tasks : SignalLocked(t)
    \/ \E t \in Tasks : HasLocked(t)
    \/ \E t \in Tasks : CheckTimeout(t)
    \/ \E t \in Tasks : Wake(t)
    \/ \E t \in Tasks : Return(t)
    \/ TickOnTime

\* The polling operations under fair scheduling: the clock keeps running, every task
\* that can take a step is scheduled, and a ready task runs within two ticks.
FairTimed ==
    Init /\ [][NextOnTime]_vars /\ WF_vars(TickOnTime) /\ \A t \in Callers : WF_vars(Step(t))

\* C9: without a mutex every operation returns its failure value: a call that has
\* begun ends, with that value.
C9_FailsClosed ==
    \A t \in Callers :
        (mutex = "nullptr" /\ pc[t] # "idle") ~> (pc[t] = "done" /\ ret[t] = FailValue(op[t]))

\* C10 as stated: a keyed operation called with a null or an empty key returns its
\* failure value at once, and no entry is ever stored under the empty key.
C10_NullOrEmptyKey ==
    /\ \A t \in Tasks :
          (op[t] \in KeyedOps /\ key[t] \in {NullKey, ""}) =>
              (pc[t] = "done" /\ exit[t] = "entry" /\ ret[t] = FailValue(op[t]))
    /\ ~Found(notifications, "")

\* C10 as amended: a keyed operation called with a null key returns its failure
\* value at once: the call is over in the step that began it, without an attempt at
\* the mutex, and that step leaves the map and the mutex as they were.
C10_NullKey ==
    [][\A t \in Tasks :
          (op'[t] \in KeyedOps /\ key'[t] = NullKey) =>
              /\ pc'[t] = "done" /\ exit'[t] = "entry" /\ took'[t] = FALSE
              /\ ret'[t] = FailValue(op'[t])
              /\ pc[t] = "idle" => (notifications' = notifications /\ mutex' = mutex)]_vars

\* consume(nullptr, portMAX_DELAY) has returned nullptr while the store holds an entry.
C10_Witness ==
    \E t \in Tasks :
        /\ pc[t] = "done" /\ op[t] = "consume" /\ key[t] = NullKey
        /\ timeout_ticks[t] = portMAX_DELAY /\ ret[t] = nullptr
        /\ mutex = "free" /\ notifications # EmptyMap

\* C11 as stated: when the one xSemaphoreTake of send, has, hasSignal, remove, clear
\* or count fails, the call ends in that step returning false, or 0 for count, and
\* the map is as it was.
C11_LockFailureValue ==
    [][\A t \in Tasks :
          (pc[t] = "take" /\ op[t] \notin Blocking /\ pc'[t] # "take" /\ mutex' # t) =>
              /\ pc'[t] = "done"
              /\ ret'[t] = (IF op[t] = "count" THEN SizeT(0) ELSE false)
              /\ notifications' = notifications]_vars

\* C11 as amended: when the one xSemaphoreTake of send, has, hasSignal, remove, clear
\* or count fails because another task holds the mutex, the call ends in that step:
\* send, has, hasSignal and remove return false, count returns 0, clear returns
\* without a value; the map and the mutex are as they were.
C11_LockFailureReturns ==
    [][\A t \in Tasks :
          (pc[t] = "take" /\ op[t] \notin Blocking /\ pc'[t] # "take" /\ mutex' # t) =>
              /\ mutex \notin {"free", "nullptr", t}
              /\ pc'[t] = "done" /\ exit'[t] = "lock" /\ took'[t] = FALSE
              /\ ret'[t] = FailValue(op[t])
              /\ notifications' = notifications /\ mutex' = mutex]_vars

\* remove("a") could not take the mutex and returned false; the entry of "a" is
\* still there.
C11_Witness ==
    \E t \in Tasks :
        /\ pc[t] = "done" /\ op[t] = "remove" /\ key[t] = "a"
        /\ exit[t] = "lock" /\ ret[t] = false
        /\ Found(notifications, "a")

----------------------------------------------------------------------------
(* Waiters: wait(key) followed by a retrieval *)

\* One task alone: a send of either form, wait on the key, then a retrieval.
WaitThenScripts ==
    {Scripts(<<c, MkCall("wait", "a", NoValue, T), MkCall(g, "a", NoValue, 0)>>, <<>>, <<>>, <<>>) :
        c \in Sends("a"), T \in {0, 1, portMAX_DELAY}, g \in {"consume", "signal"}}

\* One send, then two tasks that each wait for the key and then consume it: the
\* sender itself and another task.
WaitersScripts ==
    {Scripts(<<MkCall("sendPtr", "a", v, 0), MkCall("wait", "a", NoValue, T1), MkCall("consume", "a", NoValue, Tc)>>,
             <<MkCall("wait", "a", NoValue, T2), MkCall("consume", "a", NoValue, Tc)>>, <<>>, <<>>) :
        v \in {p1}, T1 \in {1}, T2 \in {0, 1}, Tc \in {0, 1}}

WaitFamilies == [waitthen |-> WaitThenScripts, waiters |-> WaitersScripts]

InitWait == \E name \in DOMAIN WaitFamilies : InitFamily(name, WaitFamilies[name])

NextWait ==
    \/ \E t \in Tasks : ScriptCall(t)
    \/ \E t \in Tasks : TakeMutex(t)
    \/ \E t \in Tasks : TakeTimeout(t)
    \/ \E t \in Tasks : SendErase(t)
    \/ \E t \in Tasks : SendEmplace(t)
    \/ \E t \in Tasks : ConsumeLocked(t)
    \/ \E t \in Tasks : SignalLocked(t)
    \/ \E t \in Tasks : HasLocked(t)
    \/ \E t \in Tasks : CheckTimeout(t)
    \/ \E t \in Tasks : Wake(t)
    \/ \E t \in Tasks : ScriptReturn(t)
    \/ Tick

SpecWait == InitWait /\ [][NextWait]_vars

\* A step of task t while it runs (or begins) wait.
WaitStep(t) == pc'[t] # pc[t] /\ (op[t] = "wait" \/ op'[t] = "wait")

\* C12: no step of a wait changes the map; the entry a wait returns true for is in
\* the map as wait returns; and with no other task about, the retrieval that follows
\* finds it, and returns the value sent when it is of the matching form.
C12_WaitLeavesMap ==
    /\ [][\A t \in Tasks :
             WaitStep(t) =>
                 /\ notifications' = notifications
                 /\ (pc'[t] = "done" /\ ret'[t] = true) => Found(notifications', key[t])]_vars
    /\ []((scenario = "waitthen" /\ mutex # "nullptr" /\ Len(rets["t1"]) = 3) =>
             LET r == rets["t1"]
             IN  /\ r[2].ret = true /\ r[2].exit = "body"
                 /\ r[3].exit = "body"
                 /\ r[3].op = GetterOf(r[1].op) => r[3].ret = r[1].arg)

\* wait(a, portMAX_DELAY) returned true and the consume after it got the pointer sent.
C12_Witness ==
    /\ scenario = "waitthen" /\ Len(rets["t1"]) = 3
    /\ rets["t1"][1].op = "sendPtr"
    /\ rets["t1"][2].timeout = portMAX_DELAY /\ rets["t1"][2].ret = true
    /\ rets["t1"][3].op = "consume" /\ rets["t1"][3].ret = rets["t1"][1].arg

C14_Remove ==
    [][/\ \A t \in Tasks :
            (pc[t] = "locked" /\ op[t] = "remove" /\ pc'[t] # "locked") =>
                /\ pc'[t] = "done" /\ exit'[t] = "body"
                /\ ret'[t] = Bool(Found(notifications, key[t]))
                /\ ~Found(notifications', key[t])
                /\ ~Found(notifications, key[t]) => notifications' = notifications
       /\ \A k \in StrKeys :
            (~Found(notifications, k) /\ Found(notifications', k)) =>
                \E t \in Tasks :
                    /\ op[t] \in {"sendPtr", "sendInt"} /\ key[t] = k
                    /\ pc[t] = "emplace" /\ pc'[t] = "done" /\ ret'[t] = true]_vars

\* remove("a") returned true and "a" has no entry; the entry of "" is still there.
C14_Witness ==
    \E t \in Tasks :
        /\ pc[t] = "done" /\ op[t] = "remove" /\ key[t] = "a"
        /\ exit[t] = "body" /\ ret[t] = true
        /\ ~Found(notifications, "a") /\ Found(notifications, "")

\* The operations that change the entry of their key.
KeyedMutators == {"sendPtr", "sendInt", "consume", "signal", "remove"}

\* C15: a step of send (either form), consume, signal or remove on key k leaves the
\* entry of every other key as it was: present or not, and with the same item.
C15_OtherKeysKept ==
    [][\A t \in Tasks :
          (op[t] \in KeyedMutators /\ pc'[t] # pc[t]) =>
              \A j \in StrKeys \ {key[t]} :
                  /\ Found(notifications', j) = Found(notifications, j)
                  /\ Found(notifications, j) => notifications'[j] = notifications[j]]_vars

\* consume("a") took the entry of "a" while "" held an integer signal, which is
\* still there.
C15_Witness ==
    \E t \in Tasks :
        /\ pc[t] = "done" /\ op[t] = "consume" /\ key[t] = "a" /\ exit[t] = "body"
        /\ ~Found(notifications, "a")
        /\ Found(notifications, "") /\ notifications[""] = ItemOfSignal(IntV(1))

----------------------------------------------------------------------------
(* A polling task against a task that runs the other operations *)

\* Task t1 polls key "a" for a tick; task t2 sends to it and then makes one more call.
LockScripts ==
    {Scripts(<<MkCall(o, "a", NoValue, 1)>>, <<MkCall("sendPtr", "a", p1, 0), c>>, <<>>, <<>>) :
        o \in Blocking,
        c \in {MkCall("sendInt", "a", IntV(1), 0), MkCall("has", "a", NoValue, 0), MkCall("hasSignal", "a", NoValue, 0),
               MkCall("remove", "a", NoValue, 0), MkCall("clear", NoKey, NoValue, 0), MkCall("count", NoKey, NoValue, 0)}}

\* The calls that look at key "a" or at the size of the map.
Observers ==
    {MkCall(o, "a", NoValue, 0) : o \in {"has", "hasSignal", "consume"}}
    \cup {MkCall(o, "a", NoValue, 1) : o \in {"wait", "consume"}}
    \cup {MkCall("count", NoKey, NoValue, 0)}

\* Task t1 sends to key "a" and then replaces the entry; task t2 makes one call that
\* looks at the key meanwhile.
ReplaceScripts ==
    {Scripts(<<MkCall("sendPtr", "a", p1, 0), MkCall("sendPtr", "a", p2, 0)>>, <<c>>, <<>>, <<>>) :
        c \in Observers}

LockFamilies == [lock |-> LockScripts, replace |-> ReplaceScripts]

InitLock == \E name \in DOMAIN LockFamilies : InitFamily(name, LockFamilies[name])

NextLock ==
    \/ \E t \in Tasks : ScriptCall(t)
    \/ \E t \in Tasks : TakeMutex(t)
    \/ \E t \in Tasks : TakeTimeout(t)
    \/ \E t \in Tasks : SendErase(t)
    \/ \E t \in Tasks : SendEmplace(t)
    \/ \E t \in Tasks : ConsumeLocked(t)
    \/ \E t \in Tasks : SignalLocked(t)
    \/ \E t \in Tasks : HasLocked(t)
    \/ \E t \in Tasks : RemoveLocked(t)
    \/ \E t \in Tasks : ClearLocked(t)
    \/ \E t \in Tasks : CountLocked(t)
    \/ \E t \in Tasks : CheckTimeout(t)
    \/ \E t \in Tasks : Wake(t)
    \/ \E t \in Tasks : ScriptReturn(t)
    \/ Tick

SpecLock == InitLock /\ [][NextLock]_vars

\* The places of a call between xSemaphoreTake and xSemaphoreGive.
InCritical(t) == pc[t] \in {"locked", "emplace"}

\* C16: at most one task is between take and give, and it is the holder of the
\* mutex; a task that is anywhere else (returned, sleeping, at its deadline test,
\* waiting for the mutex) does not hold it; and the map changes, and a result read
\* from it is returned, only in a step of the task that holds the mutex.
C16_LockDiscipline ==
    /\ [](/\ Cardinality({t \in Tasks : InCritical(t)}) <= 1
          /\ \A t \in Tasks : InCritical(t) <=> mutex = t)
    /\ [][/\ (mutex' \in Tasks /\ mutex' # mutex) => mutex = "free"
          /\ \A t \in Tasks :
                (pc'[t] = "done" /\ pc[t] # "done" /\ exit'[t] = "body") => mutex = t
          /\ notifications' # notifications =>
                \E t \in Tasks : mutex = t /\ InCritical(t) /\ pc'[t] # pc[t]]_vars

\* The polling task took the mutex, found nothing, gave it back and sleeps; the
\* other task now holds the mutex, between erase and emplace.
C16_Witness ==
    /\ scenario = "lock"
    /\ pc["t1"] = "sleep" /\ took["t1"] = TRUE
    /\ pc["t2"] = "emplace" /\ mutex = "t2"

\* C17: while the clock runs and the tasks are scheduled fairly, every call that has
\* begun returns, unless it is a consume, signal or wait with timeout portMAX_DELAY:
\* the polling calls with a finite timeout return, and no call is left waiting for
\* the mutex.
C17_Terminates ==
    \A t \in Callers :
        (pc[t] \notin {"idle", "done"} /\ ~(op[t] \in Blocking /\ timeout_ticks[t] = portMAX_DELAY))
            ~> pc[t] = "done"

\* The step in which task t, holding the mutex, reads the map and gives the mutex.
ObserverLooks(t) == pc[t] = "locked" /\ pc'[t] # "locked" /\ op[t] \notin {"sendPtr", "sendInt"}

\* C18: once send("a", p1) has returned true and while the same task replaces the
\* entry by send("a", p2), a has, hasSignal, wait, consume or count of another task
\* that gets the mutex finds the key present, with the old or the new value, and
\* returns accordingly; while the old entry is erased and the new one not yet
\* inserted no other task is under the mutex.
C18_ReplaceAtomic ==
    /\ [][(scenario = "replace" /\ ObserverLooks("t2")
             /\ Len(rets["t1"]) >= 1 /\ rets["t1"][1].ret = true) =>
               /\ Found(notifications, "a")
               /\ notifications["a"] \in {ItemOfData(p1), ItemOfData(p2)}
               /\ pc'["t2"] = "done" /\ exit'["t2"] = "body"
               /\ ret'["t2"] = CASE op["t2"] = "count" -> SizeT(1)
                                  [] op["t2"] = "consume" -> notifications["a"].val
                                  [] OTHER -> true]_vars
    /\ []((scenario = "replace" /\ pc["t1"] = "emplace") =>
             /\ mutex = "t1"
             /\ pc["t2"] # "locked")

\* The second send has erased the old entry and not yet inserted the new one, and the
\* other task, calling has("a"), waits for the mutex.
C18_Witness ==
    /\ scenario = "replace"
    /\ Len(rets["t1"]) = 1 /\ rets["t1"][1].ret = true
    /\ pc["t1"] = "emplace" /\ ~Found(notifications, "a")
    /\ pc["t2"] = "take" /\ op["t2"] = "has"

\* C19: a signal that returns -1 and a consume that returns nullptr have removed no
\* entry: a call that returns by the statement under the mutex, having erased the
\* entry it found, returns something other than the absent value.
C19_AbsentUnambiguous ==
    \A t \in Tasks :
        (pc[t] = "done" /\ op[t] \in {"consume", "signal"} /\ exit[t] = "body") =>
            ret[t] # FailValue(op[t])

\* The deadline test of task t is about to run.
AtDeadlineTest(t) == pc[t] = "check" /\ op[t] \in Blocking

====
